---- MODULE Spec2Model ----
(***************************************************************************)
(* Model of src/bin/counter.rs: the ParallelParser stream (poll_next) and  *)
(* the group accumulation loop of main that consumes it.                   *)
(*                                                                         *)
(* One invocation of poll_next is modelled by the steps                    *)
(*   Enter -> (one Fill* step per iteration of the while loop) -> Tail*    *)
(* so that the number of iterations of the fill loop is observable.        *)
(* The environment completes the outstanding frame read (IoComplete) and   *)
(* the spawned decode jobs (JobComplete) in any order.                     *)
(***************************************************************************)
EXTENDS Naturals, Sequences, FiniteSets

\* Bounds of the model.
MaxBlocks == 3
MaxW == 2
\* Largest u64 value of the model: slots and counters are computed modulo
\* U64Max + 1.
U64Max == 864001

\* Slots per epoch (line 127).
SlotsPerEpoch == 432000

\* Slots a Block node may carry: not epoch-aligned, with a gap, and the
\* largest value.
Slots == {SlotsPerEpoch + 1, SlotsPerEpoch + 3, U64Max}

\* What a raw block decodes to: a Block node, a node of another kind, a
\* decoder error (NodeError), or a decode job that panics (JoinError).
Payloads == {"Block", "Other", "DecErr", "Panic"}

VARIABLES
    node_futs_max,  \* ParallelParser.node_futs_max (the window W)
    reader,         \* ParallelParser.reader is Some
    raw_node_fut,   \* ParallelParser.raw_node_fut is Some
    ioReady,        \* the read held in raw_node_fut has its result available
    readerEnd,      \* "open", or how the NodeReader ended: "eof" | "err"
    blocks,         \* payloads of the raw blocks read_node has returned so far
    node_futs,      \* ParallelParser.node_futs: queue of job ids (block indices)
    node_fut,       \* ParallelParser.node_fut: job id, 0 for None
    completed,      \* decode jobs that have finished, in completion order
    pc,             \* position inside poll_next: "idle" | "fill" | "tail" | "panicked"
    iters,          \* iterations of the fill loop in the current invocation
    ret,            \* value returned by the last invocation of poll_next
    out,            \* every Ready(..) value poll_next has returned, in order
    polled,         \* futures the current invocation polled and found pending
    mainpc,         \* main: "next" (at reader.next().await) | "ok" | "err" | "panicked"
    nodes,          \* main: the nodes pushed into the group being accumulated
    groups,         \* main: the groups that left the accumulation loop non-empty
    bar,            \* main: bar.block and bar.block_skippped
    next_slot,      \* main: next_slot, <<>> for None and <<s>> for Some(s)
    slots,          \* slots of the Block nodes whose arm (line 122) was entered
    underflow       \* some frame.slot - expected_slot (line 130) was negative

vars == <<node_futs_max, reader, raw_node_fut, ioReady, readerEnd, blocks,
          node_futs, node_fut, completed, pc, iters, ret, out, polled,
          mainpc, nodes, groups, bar, next_slot, slots, underflow>>

----------------------------------------------------------------------------
\* Values poll_next returns.
NoRet == [t |-> "none", blk |-> 0]
RetPending == [t |-> "pending", blk |-> 0]
Eos == [t |-> "eos", blk |-> 0]
ReaderErr == [t |-> "rderr", blk |-> 0]
NodeItem(j) == [t |-> "node", blk |-> j]
DecodeErr(j) == [t |-> "decerr", blk |-> j]

Done == {completed[i] : i \in 1..Len(completed)}

IterCap == node_futs_max + 2

Min(a, b) == IF a < b THEN a ELSE b

\* while this.node_futs.len() < *this.node_futs_max
LoopCondStrict(len, max) == len + 1 < max
LoopCondOffByOne(len, max) == len <= max
LoopCond(len, max) == len < max

\* this.node_futs.pop_front(): <<the handle, the rest of the queue>>
PopBack(q) == <<q[Len(q)], SubSeq(q, 1, Len(q) - 1)>>
PopFront(q) == <<Head(q), Tail(q)>>

\* *this.reader = Some(reader): only the Ok(Some(node)) arm puts the reader back.
ReaderPutBackAlways(result) == TRUE
ReaderPutBack(result) == result = "some"

\* this.reader.is_none() && this.raw_node_fut.is_none()
StreamEndedReaderOnly(r, f) == ~r
StreamEndedNegated(r, f) == ~r /\ f
StreamEnded(r, f) == ~r /\ ~f

\* matches!(node.node, Node::Block(_))
IsBlockNever(payload) == FALSE
IsBlock(payload) == payload = "Block"

\* nodes.push(node): ns is the sequence of nodes pushed into the group so far.
PushUnlessBlock(ns, item) ==
    IF blocks[item.blk] = "Block" THEN ns ELSE Append(ns, item)
Push(ns, item) == Append(ns, item)

----------------------------------------------------------------------------
Init ==
    /\ node_futs_max \in 1..MaxW
    /\ reader = TRUE
    /\ raw_node_fut = FALSE
    /\ ioReady = FALSE
    /\ readerEnd = "open"
    /\ blocks = <<>>
    /\ node_futs = <<>>
    /\ node_fut = 0
    /\ completed = <<>>
    /\ pc = "idle"
    /\ iters = 0
    /\ ret = NoRet
    /\ out = <<>>
    /\ polled = {}
    /\ mainpc = "next"
    /\ nodes = <<>>
    /\ groups = <<>>
    /\ bar = [block |-> 0, block_skippped |-> 0]
    /\ next_slot = <<>>
    /\ slots = <<>>
    /\ underflow = FALSE

----------------------------------------------------------------------------
\* Environment.

\* The read_node call held in raw_node_fut gets its result.
IoComplete ==
    /\ raw_node_fut /\ ~ioReady
    /\ ioReady' = TRUE
    /\ UNCHANGED <<mainpc, nodes, groups, bar, next_slot, slots, underflow,
                   polled,
                   node_futs_max, reader, raw_node_fut, readerEnd, blocks,
                   node_futs, node_fut, completed, pc, iters, ret, out>>

\* A spawned decode job finishes on the blocking pool.
JobComplete(j) ==
    /\ j \in 1..Len(blocks)
    /\ j \notin Done
    /\ completed' = Append(completed, j)
    /\ UNCHANGED <<mainpc, nodes, groups, bar, next_slot, slots, underflow,
                   polled,
                   node_futs_max, reader, raw_node_fut, ioReady, readerEnd,
                   blocks, node_futs, node_fut, pc, iters, ret, out>>

----------------------------------------------------------------------------
\* poll_next.

Enter ==
    /\ pc = "idle"
    /\ pc' = "fill"
    /\ iters' = 0
    /\ ret' = NoRet
    /\ polled' = {}
    /\ UNCHANGED <<mainpc, nodes, groups, bar, next_slot, slots, underflow,
                   node_futs_max, reader, raw_node_fut, ioReady, readerEnd,
                   blocks, node_futs, node_fut, completed, out>>

InLoop == pc = "fill" /\ LoopCond(Len(node_futs), node_futs_max)

\* After lines 371-376 a read future exists iff reader or raw_node_fut was Some.
HasFut == reader \/ raw_node_fut

\* Outcomes of polling the read future: a future created in this iteration
\* may or may not be ready at its first poll; a stored one is ready once the
\* I/O has completed.
ReadReady == IF reader THEN BOOLEAN ELSE {ioReady}

\* The loop condition is false: fall through to line 396.
FillExit ==
    /\ pc = "fill"
    /\ ~LoopCond(Len(node_futs), node_futs_max)
    /\ pc' = "tail"
    /\ UNCHANGED <<mainpc, nodes, groups, bar, next_slot, slots, underflow,
                   polled,
                   node_futs_max, reader, raw_node_fut, ioReady, readerEnd,
                   blocks, node_futs, node_fut, completed, iters, ret, out>>

\* Poll::Ready((reader, Ok(Some(node)))): put the reader back, spawn the job.
FillPush(p) ==
    /\ InLoop /\ HasFut /\ TRUE \in ReadReady
    /\ Len(blocks) < MaxBlocks
    /\ blocks' = Append(blocks, p)
    /\ node_futs' = Append(node_futs, Len(blocks) + 1)
    /\ reader' = ReaderPutBack("some")
    /\ raw_node_fut' = FALSE
    /\ ioReady' = FALSE
    /\ iters' = Min(iters + 1, IterCap)
    /\ UNCHANGED <<mainpc, nodes, groups, bar, next_slot, slots, underflow,
                   polled,
                   node_futs_max, readerEnd, node_fut, completed, pc, ret, out>>

\* Poll::Ready((_, Ok(None))): break.
FillEof ==
    /\ InLoop /\ HasFut /\ TRUE \in ReadReady
    /\ reader' = ReaderPutBack("none")
    /\ raw_node_fut' = FALSE
    /\ ioReady' = FALSE
    /\ readerEnd' = "eof"
    /\ iters' = Min(iters + 1, IterCap)
    /\ pc' = "tail"
    /\ UNCHANGED <<mainpc, nodes, groups, bar, next_slot, slots, underflow,
                   polled,
                   node_futs_max, blocks, node_futs, node_fut, completed, ret, out>>

\* Poll::Ready((_, Err(error))): return Poll::Ready(Some(Err(error))).
FillErr ==
    /\ InLoop /\ HasFut /\ TRUE \in ReadReady
    /\ reader' = ReaderPutBack("err")
    /\ raw_node_fut' = FALSE
    /\ ioReady' = FALSE
    /\ readerEnd' = "err"
    /\ iters' = Min(iters + 1, IterCap)
    /\ out' = Append(out, ReaderErr)
    /\ ret' = ReaderErr
    /\ pc' = "idle"
    /\ UNCHANGED <<mainpc, nodes, groups, bar, next_slot, slots, underflow,
                   polled,
                   node_futs_max, blocks, node_futs, node_fut, completed>>

\* Poll::Pending: store the future again and break.
FillPending ==
    /\ InLoop /\ HasFut /\ FALSE \in ReadReady
    /\ reader' = FALSE
    /\ raw_node_fut' = TRUE
    /\ ioReady' = FALSE
    /\ iters' = Min(iters + 1, IterCap)
    /\ pc' = "tail"
    /\ polled' = polled \cup {"read"}
    /\ UNCHANGED <<mainpc, nodes, groups, bar, next_slot, slots, underflow,
                   node_futs_max, readerEnd, blocks, node_futs, node_fut,
                   completed, ret, out>>

\* reader and raw_node_fut are both None: neither `if let` matches, the body
\* does nothing and control returns to the loop condition.
FillSpin ==
    /\ InLoop /\ ~HasFut
    /\ iters' = Min(iters + 1, IterCap)
    /\ UNCHANGED <<mainpc, nodes, groups, bar, next_slot, slots, underflow,
                   polled,
                   node_futs_max, reader, raw_node_fut, ioReady, readerEnd,
                   blocks, node_futs, node_fut, completed, pc, ret, out>>

\* Lines 396-405: the handle polled at line 407 and the queue left behind.
HeadFut == IF node_fut # 0 THEN node_fut
           ELSE IF node_futs # <<>> THEN PopFront(node_futs)[1] ELSE 0
RestFuts == IF node_fut = 0 /\ node_futs # <<>> THEN PopFront(node_futs)[2]
            ELSE node_futs

\* Line 401: return Poll::Ready(None).
TailEos ==
    /\ pc = "tail"
    /\ node_fut = 0 /\ node_futs = <<>>
    /\ StreamEnded(reader, raw_node_fut)
    /\ out' = Append(out, Eos)
    /\ ret' = Eos
    /\ pc' = "idle"
    /\ UNCHANGED <<mainpc, nodes, groups, bar, next_slot, slots, underflow,
                   polled,
                   node_futs_max, reader, raw_node_fut, ioReady, readerEnd,
                   blocks, node_futs, node_fut, completed, iters>>

TailReachesPoll ==
    /\ pc = "tail"
    /\ ~(node_fut = 0 /\ node_futs = <<>> /\ StreamEnded(reader, raw_node_fut))

\* Line 410: the head job is ready with Ok(result): return Ready(Some(result)).
TailYield ==
    /\ TailReachesPoll
    /\ HeadFut # 0 /\ HeadFut \in Done
    /\ blocks[HeadFut] # "Panic"
    /\ LET item == IF blocks[HeadFut] = "DecErr" THEN DecodeErr(HeadFut)
                   ELSE NodeItem(HeadFut)
       IN /\ out' = Append(out, item)
          /\ ret' = item
    /\ node_fut' = 0
    /\ node_futs' = RestFuts
    /\ pc' = "idle"
    /\ UNCHANGED <<mainpc, nodes, groups, bar, next_slot, slots, underflow,
                   polled,
                   node_futs_max, reader, raw_node_fut, ioReady, readerEnd,
                   blocks, completed, iters>>

\* Line 410: the head job is ready with Err(JoinError): expect() panics.
TailPanic ==
    /\ TailReachesPoll
    /\ HeadFut # 0 /\ HeadFut \in Done
    /\ blocks[HeadFut] = "Panic"
    /\ node_fut' = 0
    /\ node_futs' = RestFuts
    /\ pc' = "panicked"
    /\ UNCHANGED <<mainpc, nodes, groups, bar, next_slot, slots, underflow,
                   polled,
                   node_futs_max, reader, raw_node_fut, ioReady, readerEnd,
                   blocks, completed, iters, ret, out>>

\* Lines 412-418: the head job is pending, or there is none: Poll::Pending.
TailPending ==
    /\ TailReachesPoll
    /\ HeadFut = 0 \/ HeadFut \notin Done
    /\ node_fut' = HeadFut
    /\ node_futs' = RestFuts
    /\ ret' = RetPending
    /\ polled' = (IF HeadFut # 0 THEN polled \cup {"job"} ELSE polled)
    /\ pc' = "idle"
    /\ UNCHANGED <<mainpc, nodes, groups, bar, next_slot, slots, underflow,
                   node_futs_max, reader, raw_node_fut, ioReady, readerEnd,
                   blocks, completed, iters, out>>

----------------------------------------------------------------------------
\* A consumer that pulls the stream whenever the previous poll has returned.
Pull == Enter

Next ==
    \/ Pull
    \/ FillExit
    \/ \E p \in Payloads : FillPush(p)
    \/ FillEof
    \/ FillErr
    \/ FillPending
    \/ FillSpin
    \/ TailEos
    \/ TailYield
    \/ TailPanic
    \/ TailPending
    \/ IoComplete
    \/ \E j \in 1..MaxBlocks : JobComplete(j)

Spec == Init /\ [][Next]_vars

----------------------------------------------------------------------------
\* main, lines 72-160, as the consumer.

\* reader.next().await: poll the stream (again after Pending).
MainPoll ==
    /\ mainpc = "next"
    /\ ret.t \in {"none", "pending"}
    /\ Enter

\* Lines 90-157 may fail (the `?` of the --decode paths) on a group that
\* holds a node other than a Block.
MayFail(g) == \E i \in 1..Len(g) : blocks[g[i].blk] # "Block"

\* let expected_slot = match next_slot { Some(slot) => slot,
\*                                        None => frame.slot - frame.slot % 432_000 }
ExpectedSlotNoEpoch(next, slot) == IF next = <<>> THEN slot ELSE next[1]
ExpectedSlot(next, slot) ==
    IF next = <<>> THEN slot - (slot % SlotsPerEpoch) ELSE next[1]

\* The Node::Block arm, lines 122-131, for a Block of slot s. The u64
\* addition of line 129 and subtraction of line 130 panic when the build
\* checks overflow and wrap when it does not.
BlockArm(s) ==
    LET expected == ExpectedSlot(next_slot, s)
        addPanics == IF s = U64Max THEN BOOLEAN ELSE {FALSE}
        subPanics == IF s < expected THEN BOOLEAN ELSE {FALSE}
        diff == IF s < expected THEN s + (U64Max + 1) - expected ELSE s - expected
    IN /\ slots' = Append(slots, s)
       /\ underflow' = (underflow \/ s < expected)
       /\ \E ap \in addPanics, sp \in subPanics :
            IF ap
            THEN /\ bar' = [bar EXCEPT !.block = @ + 1]
                 /\ mainpc' = "panicked"
                 /\ UNCHANGED next_slot
            ELSE /\ next_slot' = <<(s + 1) % (U64Max + 1)>>
                 /\ IF sp
                    THEN /\ bar' = [bar EXCEPT !.block = @ + 1]
                         /\ mainpc' = "panicked"
                    ELSE /\ bar' = [block |-> bar.block + 1,
                                    block_skippped |->
                                        (bar.block_skippped + diff) % (U64Max + 1)]
                         /\ mainpc' = "next"

\* Some(Ok(node)): finished = matches!(..); nodes.push(node); a finished
\* group is processed (its Block last) and the outer loop starts the next one.
MainNode ==
    /\ mainpc = "next" /\ pc = "idle" /\ ret.t = "node"
    /\ ret' = NoRet
    /\ LET finished == IsBlock(blocks[ret.blk])
           pushed == Push(nodes, ret)
       IN IF finished
          THEN /\ nodes' = <<>>
               /\ groups' = Append(groups, pushed)
               /\ \/ /\ MayFail(pushed)
                     /\ mainpc' = "err"
                     /\ UNCHANGED <<bar, next_slot, slots, underflow>>
                  \/ \E s \in Slots : BlockArm(s)
          ELSE /\ nodes' = pushed
               /\ UNCHANGED <<groups, mainpc, bar, next_slot, slots, underflow>>
    /\ UNCHANGED <<polled, node_futs_max, reader, raw_node_fut, ioReady, readerEnd,
                   blocks, node_futs, node_fut, completed, pc, iters, out>>

\* Some(Err(error)) => return Err(error.into()).
MainErr ==
    /\ mainpc = "next" /\ pc = "idle" /\ ret.t \in {"rderr", "decerr"}
    /\ ret' = NoRet
    /\ mainpc' = "err"
    /\ UNCHANGED <<nodes, groups, bar, next_slot, slots, underflow>>
    /\ UNCHANGED <<polled, node_futs_max, reader, raw_node_fut, ioReady, readerEnd,
                   blocks, node_futs, node_fut, completed, pc, iters, out>>

\* None => break; an empty group ends main with Ok, a partial group is
\* processed and the outer loop pulls the stream again.
MainEos ==
    /\ mainpc = "next" /\ pc = "idle" /\ ret.t = "eos"
    /\ ret' = NoRet
    /\ IF nodes = <<>>
       THEN /\ mainpc' = "ok"
            /\ UNCHANGED <<nodes, groups>>
       ELSE /\ nodes' = <<>>
            /\ groups' = Append(groups, nodes)
            /\ mainpc' \in (IF MayFail(nodes) THEN {"next", "err"} ELSE {"next"})
    /\ UNCHANGED <<bar, next_slot, slots, underflow>>
    /\ UNCHANGED <<polled, node_futs_max, reader, raw_node_fut, ioReady, readerEnd,
                   blocks, node_futs, node_fut, completed, pc, iters, out>>

MainNext ==
    \/ MainPoll
    \/ MainNode
    \/ MainErr
    \/ MainEos
    \/ FillExit
    \/ \E p \in Payloads : FillPush(p)
    \/ FillEof
    \/ FillErr
    \/ FillPending
    \/ FillSpin
    \/ TailEos
    \/ TailYield
    \/ TailPanic
    \/ TailPending
    \/ IoComplete
    \/ \E j \in 1..MaxBlocks : JobComplete(j)

MainSpec == Init /\ [][MainNext]_vars

----------------------------------------------------------------------------
\* Properties of the stream (specification Spec).

IsNodeItem(x) == x.t \in {"node", "decerr"}
IsErrItem(x) == x.t \in {"rderr", "decerr"}

\* Decode jobs spawned whose result has not been returned by poll_next.
InFlight == Len(node_futs) + (IF node_fut # 0 THEN 1 ELSE 0)

\* C1: the i-th value yielded that carries a block (a node or its decoder
\* error) is the one of the i-th block read_node returned, whatever the order
\* in which the decode jobs completed: no block is yielded twice, none is
\* skipped, and nothing is yielded for a block that was not read.
C1_OrderPreserved ==
    \A i \in 1..Len(out) :
        IsNodeItem(out[i]) =>
            /\ out[i].blk = i
            /\ i <= Len(blocks)
            /\ \A k \in 1..(i - 1) : IsNodeItem(out[k])

\* Two blocks were yielded although the job of block 2 finished first.
C1_Witness ==
    /\ Len(out) >= 2
    /\ IsNodeItem(out[1]) /\ IsNodeItem(out[2])
    /\ completed # <<>> /\ completed[1] = 2

\* C2: on a CAR that ends in a clean EOF, every invocation of poll_next made
\* before end-of-stream was yielded leaves its fill loop after finitely many
\* iterations (at most node_futs_max pushes and one iteration that breaks),
\* so that the stream can go on to yield the remaining items.
C2_FillLoopTerminates ==
    (/\ readerEnd = "eof"
     /\ \A j \in 1..Len(blocks) : blocks[j] # "Panic"
     /\ \A p \in 1..Len(out) : out[p] # Eos)
        => iters <= node_futs_max + 1

\* C3: after an error item has been yielded, every later pull returns and
\* yields end-of-stream.
C3_ErrorTerminal ==
    /\ \A p \in 1..Len(out) : \A q \in (p + 1)..Len(out) :
           IsErrItem(out[p]) => out[q] = Eos
    /\ (\E p \in 1..Len(out) : IsErrItem(out[p])) => iters <= node_futs_max + 1

\* C4 as stated: at most node_futs_max decode jobs are in flight.
C4_InFlightAtMostW == InFlight <= node_futs_max

\* C4, amended: at most node_futs_max + 1 decode jobs are in flight, the
\* node_futs_max handles of node_futs and the one held in node_fut.
C4_InFlightBound ==
    /\ Len(node_futs) <= node_futs_max
    /\ InFlight <= node_futs_max + 1

C4_Witness == InFlight = node_futs_max + 1 /\ pc = "idle"

\* C7: a decode job that panicked is surfaced as an error item of its block;
\* poll_next itself does not panic.
C7_PanicSurfaced ==
    \A j \in 1..Len(blocks) :
        (blocks[j] = "Panic" /\ j \in Done /\ j # node_fut
           /\ \A i \in 1..Len(node_futs) : node_futs[i] # j)
        => /\ pc # "panicked"
           /\ \E p \in 1..Len(out) : IsErrItem(out[p]) /\ out[p].blk = j

\* C10: the decoder error of the i-th block read is yielded as the i-th item,
\* after the items of blocks 1..i-1 and before any item of a later block.
C10_DecodeErrInPlace ==
    /\ \A p \in 1..Len(out) :
          out[p].t = "decerr" =>
              /\ out[p].blk = p
              /\ blocks[p] = "DecErr"
              /\ \A q \in 1..(p - 1) : IsNodeItem(out[q]) /\ out[q].blk < p
              /\ \A q \in (p + 1)..Len(out) : IsNodeItem(out[q]) => out[q].blk > p
    /\ \A i \in 1..Len(out) :
          (IsNodeItem(out[i]) /\ blocks[out[i].blk] = "DecErr") => out[i].t = "decerr"

\* The decoder error of block 2 was yielded second although its job finished
\* before the job of block 1, and block 3 was yielded after it.
C10_Witness ==
    /\ Len(out) >= 3
    /\ out[2] = DecodeErr(2) /\ out[3].t = "node"
    /\ completed[1] = 2

----------------------------------------------------------------------------
\* Properties of the driver loop of main (specification MainSpec).

RECURSIVE Flatten(_)
Flatten(gs) == IF gs = <<>> THEN <<>> ELSE Head(gs) \o Flatten(Tail(gs))

IsBlockItem(x) == blocks[x.blk] = "Block"

\* The Ok nodes main has received from the stream.
Received ==
    LET ok == SelectSeq(out, LAMBDA x : x.t = "node")
    IN IF ret.t = "node" THEN SubSeq(ok, 1, Len(ok) - 1) ELSE ok

\* C5: a group followed by another non-empty group holds exactly one Block,
\* as its last node; no group holds a Block anywhere but in last position.
C5_GroupsEndWithBlock ==
    /\ \A k \in 1..Len(groups) :
          /\ groups[k] # <<>>
          /\ \A i \in 1..(Len(groups[k]) - 1) : ~IsBlockItem(groups[k][i])
          /\ (k < Len(groups) \/ nodes # <<>>)
                => IsBlockItem(groups[k][Len(groups[k])])
    /\ \A i \in 1..(Len(nodes) - 1) : ~IsBlockItem(nodes[i])

\* Two groups were formed, the first of several nodes.
C5_Witness ==
    /\ Len(groups) >= 2
    /\ Len(groups[1]) >= 2

\* C6: the groups, concatenated in order, are the Ok nodes received from the
\* stream: each is in exactly one group and none is lost at a group boundary.
C6_GroupsConcat == Flatten(groups) \o nodes = Received

\* A node was pushed into a new group right after a group boundary.
C6_Witness ==
    /\ Len(groups) >= 1
    /\ Len(nodes) >= 1
    /\ Len(Received) >= 3

ZeroBlocks == readerEnd = "eof" /\ Len(blocks) = 0

\* C8: on a CAR without blocks the stream yields end-of-stream and nothing
\* else, by the invocation of poll_next that reads the EOF, and main ends
\* with Ok without having formed a group.
C8_EmptyCar ==
    ZeroBlocks =>
        /\ out \in {<<>>, <<Eos>>}
        /\ groups = <<>> /\ nodes = <<>>
        /\ mainpc \in {"next", "ok"}
        /\ pc \in {"tail", "idle"}
        /\ pc = "idle" => (out = <<Eos>> /\ (ret = Eos \/ mainpc = "ok"))
        /\ mainpc = "next" => ret # NoRet \/ pc = "tail"

C8_Witness == ZeroBlocks /\ mainpc = "ok" /\ groups = <<>>

\* A partial group (one that does not end with a Block) has been processed.
PartialGroupDone ==
    \E k \in 1..Len(groups) : ~IsBlockItem(groups[k][Len(groups[k])])

\* C9: after a partial group was processed, main's next pull of the finished
\* stream returns (end-of-stream again), so that main can terminate.
C9_PullAfterPartialGroupReturns ==
    (PartialGroupDone /\ mainpc = "next") => iters <= node_futs_max + 1

----------------------------------------------------------------------------
\* Further properties of the stream (specification Spec).

\* C11: a frame-reader error is the terminal item of the stream: the items
\* of all the blocks read before the failure are yielded before it, and
\* nothing is yielded after it.
C11_ReaderErrLast ==
    (\A j \in 1..Len(blocks) : blocks[j] # "Panic") =>
        \A p \in 1..Len(out) :
            out[p] = ReaderErr =>
                /\ p = Len(blocks) + 1
                /\ \A q \in 1..(p - 1) : IsNodeItem(out[q])
                /\ p = Len(out)

\* A step in which a frame read is started, polled or gets its result.
ReadStep ==
    \/ reader' # reader
    \/ raw_node_fut' # raw_node_fut
    \/ ioReady' # ioReady
    \/ blocks' # blocks
    \/ readerEnd' # readerEnd
    \/ "read" \in polled' /\ "read" \notin polled

\* C12: node_futs never holds more than node_futs_max handles, and a frame
\* read is started, polled or completed only while it holds fewer: with the
\* queue full the reader is parked in `reader` and no read is outstanding.
C12_QueueBound ==
    /\ [](/\ Len(node_futs) <= node_futs_max
          /\ Len(node_futs) = node_futs_max => (reader /\ ~raw_node_fut))
    /\ [][ReadStep => Len(node_futs) < node_futs_max]_vars

\* poll_next was entered with the queue full and left the fill loop without
\* touching the reader, although blocks remain to be read.
C12_Witness ==
    /\ pc = "tail" /\ iters = 0
    /\ Len(node_futs) = node_futs_max
    /\ node_fut # 0
    /\ reader /\ readerEnd = "open"

\* C13: the NodeReader is held in at most one of reader and raw_node_fut, so
\* at most one read is outstanding; a block is read only from the reader that
\* the previous read handed back; once a read has returned end-of-file or an
\* error both fields stay None and nothing more is read.
C13_SingleReader ==
    /\ [](/\ ~(reader /\ raw_node_fut)
          /\ readerEnd = "open" => (reader \/ raw_node_fut)
          /\ readerEnd # "open" => (~reader /\ ~raw_node_fut))
    /\ [][/\ blocks' # blocks => ((reader \/ raw_node_fut) /\ reader')
          /\ readerEnd # "open" =>
                (/\ blocks' = blocks /\ readerEnd' = readerEnd
                 /\ ~reader' /\ ~raw_node_fut' /\ ~ioReady')]_vars

\* The stream was polled again after the reader had ended, with blocks
\* read before: the fill loop ran and issued no read.
C13_Witness ==
    /\ readerEnd # "open"
    /\ Len(blocks) >= 2
    /\ pc = "fill" /\ iters >= 1

\* C14: when end-of-stream has been yielded no decode job is undelivered:
\* node_futs is empty, node_fut is None, the reader has reached end-of-file,
\* and the items yielded before end-of-stream are those of all blocks read.
C14_EosOnlyWhenDrained ==
    (\E p \in 1..Len(out) : out[p] = Eos) =>
        /\ node_futs = <<>> /\ node_fut = 0
        /\ ~reader /\ ~raw_node_fut /\ readerEnd = "eof"
        /\ Len(out) = Len(blocks) + 1
        /\ out[Len(out)] = Eos
        /\ \A i \in 1..Len(blocks) : IsNodeItem(out[i]) /\ out[i].blk = i

C14_Witness ==
    /\ pc = "idle" /\ ret = Eos
    /\ Len(blocks) >= 2

\* C15: when poll_next returns Poll::Pending, that invocation polled a
\* pending future which the stream still holds (the frame read in
\* raw_node_fut or the head decode job in node_fut), so a waker is registered.
C15_NoLostWakeup ==
    (pc = "idle" /\ ret = RetPending) =>
        /\ polled # {}
        /\ "read" \in polled => raw_node_fut
        /\ "job" \in polled => node_fut # 0

\* Pending was returned with both the frame read and the head job pending.
C15_Witness ==
    /\ pc = "idle" /\ ret = RetPending
    /\ polled = {"read", "job"}
    /\ ~ioReady /\ node_fut \notin Done

----------------------------------------------------------------------------
\* The counters of main (specification MainSpec).

StrictlyIncreasing(sq) == \A i \in 1..(Len(sq) - 1) : sq[i] < sq[i + 1]

\* C16: while the Block nodes processed carry strictly increasing slots
\* s_1 < ... < s_n, the subtraction frame.slot - expected_slot never
\* underflows, bar.block = n, and once the n-th Block arm has completed
\* bar.block_skippped = s_n - (s_1 - s_1 mod 432000) + 1 - n and next_slot
\* holds s_n + 1 (as u64); expected_slot is the epoch start slot for the
\* first Block and the previous slot + 1 afterwards.
C16_BlockCounters ==
    (Len(slots) >= 1 /\ StrictlyIncreasing(slots)) =>
        LET n == Len(slots)
            epochStart == slots[1] - (slots[1] % SlotsPerEpoch)
        IN /\ ~underflow
           /\ bar.block = n
           /\ mainpc # "panicked" =>
                 /\ bar.block_skippped + n + epochStart = slots[n] + 1
                 /\ next_slot = <<(slots[n] + 1) % (U64Max + 1)>>

\* Two Blocks with a gap between their slots, the first not epoch-aligned,
\* have been counted.
C16_Witness ==
    /\ slots = <<SlotsPerEpoch + 1, SlotsPerEpoch + 3>>
    /\ bar.block = 2 /\ bar.block_skippped = 2
    /\ mainpc = "next"

====
